---- MODULE Spec2Model ----
(***************************************************************************)
(* A model of the hushed_panic crate (src/src/lib.rs): a process-wide      *)
(* panic hook that discards the panic report of every thread registered in *)
(* HUSHED_THREADS and forwards every other report to the hook that was     *)
(* installed before.                                                       *)
(***************************************************************************)
EXTENDS Bags, FiniteSets, Integers, Sequences, TLC

\* ------------------------------------------------------------------ bounds
NThreads == 2
MaxGuards == 2
NMsgs == 2

Threads == 1..NThreads
Msgs == 1..NMsgs
NoThread == 0

\* The panic hooks a process can have: the standard library's default hook,
\* a hook the application installed itself, and this crate's husher_hook.
UserHooks == {"default", "custom"}
Hooks == UserHooks \cup {"husher"}

OpNames == {"none", "hush_panic", "hush_this_test", "unhush_panic", "drop"}

\* What a completed operation did to the calling thread.
LastKind(o) == IF o \in {"hush_panic", "hush_this_test"} THEN "hush" ELSE "unhush"

VARIABLES
    processHook,  \* the hook std::panic currently holds
    original0,    \* the hook the process had before the crate touched it
    cell,         \* HUSHED_THREADS, the OnceCell: "empty", "running", "set"
    cellF,        \* HUSHED_THREADS.0: the boxed original hook
    hushed,       \* HUSHED_THREADS.1: the HashSet<ThreadId>
    lockHolder,   \* owner of the parking_lot Mutex around the set, or 0
    initCount,    \* how many times init_hushed_threads has been entered
    guards,       \* bag of the live HushGuard values
    pc,           \* where each thread is
    op,           \* the public function each thread is in
    pre,          \* membership of the thread when the function was entered
    ret,          \* value returned by the last unhush_panic of the thread
    taken,        \* init_hushed_threads' local `original`
    dg,           \* the guard a thread is destroying
    todo,         \* calls Drop::drop still has to make
    done,         \* unhush_panic calls the running Drop::drop has completed
    rep,          \* the panic a thread is raising and what became of it
    last,         \* what the last completed library operation of each thread
                  \* was: "none", "hush" or "unhush"
    hushCalled    \* whether any thread has called hush_panic or hush_this_test

vars == <<processHook, original0, cell, cellF, hushed, lockHolder, initCount,
          guards, pc, op, pre, ret, taken, dg, todo, done, rep, last,
          hushCalled>>

NoGuard == [holder |-> 0, creator |-> 0, pre |-> FALSE]
\* rep[t]: msg is the report being raised, peer tells whether another thread
\* was hushed when it was raised, `to` who received it ("pending" while the
\* hook runs, then a hook's name, "discarded" or "println") and same whether
\* the receiver got the report as raised.  Once the unwind starts only the
\* marker "unwinding" is left.
NoRep == [msg |-> 0, peer |-> FALSE, to |-> "none", same |-> FALSE]
Unwinding == [NoRep EXCEPT !.to = "unwinding"]
Outcomes == Hooks \cup {"discarded", "println"}

Active == {t \in Threads : pc[t] # "idle"}

GuardRecs == [holder : Threads, creator : Threads, pre : BOOLEAN]

\* -------------------------------------------------------- pure operations

\* (a registry that toggles membership instead of absorbing a duplicate)
SetInsertToggle(S, t) == IF t \in S THEN S \ {t} ELSE S \cup {t}

\* (a registry that remembers only the latest thread)
SetInsertOnly(S, t) == {t}

\* HashSet::insert
SetInsert(S, t) == S \cup {t}

\* (a remove that clears the registry)
SetRemoveAll(S, t) == {}

\* (a remove that leaves the entry in place)
SetRemoveKeeps(S, t) == S

\* HashSet::remove: the set afterwards, and the returned bool
SetRemove(S, t) == S \ {t}

\* (a remove that reports success whatever the set held)
RemoveResultAlways(S, t) == TRUE

RemoveResult(S, t) == t \in S

\* (a cell that lets a second caller start the closure while the first runs)
CanStartInitRacy(c) == c # "set"

\* OnceCell::get_or_init runs the closure only for the caller that finds the
\* cell empty; everyone else waits for the value.
CanStartInit(c) == c = "empty"

\* (an initialization that installs husher_hook first and takes the hook after)
TakeHookReturnsInstalled(h) == "husher"

\* std::panic::take_hook returns the hook the process holds ...
TakeHookReturns(h) == h

\* ... and leaves the default hook in place.
TakeHookLeaves == "default"

\* (a hook that spins while the cell has a value)
SpinDoneInverted(c) == c # "set"

\* (a hook that does not wait for the cell)
SpinDoneAlways(c) == TRUE

\* `while HUSHED_THREADS.get().is_none()`
SpinDone(c) == c = "set"

\* (a hook that forwards every report)
HookForwardsAlways(S, t) == TRUE

\* (a hook that forwards only while nobody is hushed)
HookForwardsNobody(S, t) == S = {}

\* `if !guard.contains(&thread_id) { f(panic_info) }`
HookForwards(S, t) == t \notin S

\* (a hook that hands the original another report)
PassReportOther(m) == (m % NMsgs) + 1

\* f(panic_info): the original hook receives the same PanicInfo
PassReport(m) == m

\* (a Drop::drop that does nothing)
DropBodyEmpty == <<>>

\* Drop::drop is `unhush_panic();`
DropBody == <<"unhush_panic">>

\* (a guard that unhushes the thread recorded at construction)
DropTargetCreator(g, current) == IF g = NoGuard THEN current ELSE g.creator

\* std::thread::current().id() inside the unhush_panic that Drop::drop calls
DropTarget(g, current) == current

HeldBy(t) == {g \in BagToSet(guards) : g.holder = t}

\* ------------------------------------------------------------------- Init
Init ==
    /\ processHook \in UserHooks
    /\ original0 = processHook
    /\ cell = "empty"
    /\ cellF = "none"
    /\ hushed = {}
    /\ lockHolder = NoThread
    /\ initCount = 0
    /\ guards = EmptyBag
    /\ pc = [t \in Threads |-> "idle"]
    /\ op = [t \in Threads |-> "none"]
    /\ pre = [t \in Threads |-> FALSE]
    /\ ret = [t \in Threads |-> FALSE]
    /\ taken = [t \in Threads |-> "none"]
    /\ dg = [t \in Threads |-> NoGuard]
    /\ todo = [t \in Threads |-> <<>>]
    /\ done = [t \in Threads |-> 0]
    /\ rep = [t \in Threads |-> NoRep]
    /\ last = [t \in Threads |-> "none"]
    /\ hushCalled = FALSE

\* ------------------------------------------------- HUSHED_THREADS.get_or_init
\* The first step of hush_panic and unhush_panic.
GetOrInit(t) ==
    IF cell = "set"
    THEN /\ pc' = [pc EXCEPT ![t] = "lock"]
         /\ UNCHANGED <<cell, initCount>>
    ELSE IF CanStartInit(cell)
    THEN /\ cell' = "running"
         /\ initCount' = initCount + 1
         /\ pc' = [pc EXCEPT ![t] = "take"]
    ELSE /\ pc' = [pc EXCEPT ![t] = "wait"]
         /\ UNCHANGED <<cell, initCount>>

\* init_hushed_threads, line 45: let original = std::panic::take_hook();
TakeHook(t) ==
    /\ pc[t] = "take"
    /\ taken' = [taken EXCEPT ![t] = TakeHookReturns(processHook)]
    /\ processHook' = TakeHookLeaves
    /\ pc' = [pc EXCEPT ![t] = "sethook"]
    /\ UNCHANGED <<original0, cell, cellF, hushed, lockHolder, initCount,
                   guards, op, pre, ret, dg, todo, done, rep, last, hushCalled>>

\* init_hushed_threads, line 46: std::panic::set_hook(Box::new(husher_hook));
SetHook(t) ==
    /\ pc[t] = "sethook"
    /\ processHook' = "husher"
    /\ pc' = [pc EXCEPT ![t] = "publish"]
    /\ UNCHANGED <<original0, cell, cellF, hushed, lockHolder, initCount,
                   guards, op, pre, ret, taken, dg, todo, done, rep, last,
                   hushCalled>>

\* init_hushed_threads returns (original, Default::default()) and the
\* OnceCell stores it.
Publish(t) ==
    /\ pc[t] = "publish"
    /\ cell' = "set"
    /\ cellF' = taken[t]
    /\ hushed' = {}
    /\ taken' = [taken EXCEPT ![t] = "none"]
    /\ pc' = [pc EXCEPT ![t] = "lock"]
    /\ UNCHANGED <<processHook, original0, lockHolder, initCount, guards,
                   op, pre, ret, dg, todo, done, rep, last, hushCalled>>

\* A caller that lost the get_or_init race resumes once the value is there.
Wake(t) ==
    /\ pc[t] = "wait"
    /\ cell = "set"
    /\ pc' = [pc EXCEPT ![t] = "lock"]
    /\ UNCHANGED <<processHook, original0, cell, cellF, hushed, lockHolder,
                   initCount, guards, op, pre, ret, taken, dg, todo, done,
                   rep, last, hushCalled>>

\* ---------------------------------------------------------- public calls
Enter(t, o) ==
    /\ pc[t] = "idle"
    /\ op' = [op EXCEPT ![t] = o]
    /\ pre' = [pre EXCEPT ![t] = t \in hushed]
    /\ hushCalled' = (hushCalled \/ o \in {"hush_panic", "hush_this_test"})
    /\ GetOrInit(t)
    /\ UNCHANGED <<processHook, original0, cellF, hushed, lockHolder, guards,
                   ret, taken, dg, todo, done, rep, last>>

HushPanic(t) == Enter(t, "hush_panic")

UnhushPanic(t) == Enter(t, "unhush_panic")

\* (at most MaxGuards guards are alive or being built at a time)
HushThisTest(t) ==
    /\ BagCardinality(guards)
         + Cardinality({u \in Threads : op[u] = "hush_this_test"}) < MaxGuards
    /\ Enter(t, "hush_this_test")

\* threads.lock().insert(thread_id) / .1.lock().remove(&thread_id)
LockOp(t) ==
    /\ pc[t] = "lock"
    /\ lockHolder = NoThread
    /\ IF op[t] \in {"hush_panic", "hush_this_test"}
       THEN /\ hushed' = SetInsert(hushed, t)
            /\ pc' = [pc EXCEPT ![t] = "ret"]
            /\ UNCHANGED <<ret, done>>
       ELSE /\ hushed' = SetRemove(hushed, DropTarget(dg[t], t))
            /\ ret' = [ret EXCEPT ![t] =
                              RemoveResult(hushed, DropTarget(dg[t], t))]
            /\ IF op[t] = "drop"
               THEN /\ pc' = [pc EXCEPT ![t] = "drop"]
                    /\ done' = [done EXCEPT ![t] = done[t] + 1]
               ELSE /\ pc' = [pc EXCEPT ![t] = "ret"]
                    /\ UNCHANGED done
    /\ last' = [last EXCEPT ![t] = LastKind(op[t])]
    /\ UNCHANGED <<processHook, original0, cell, cellF, lockHolder, initCount,
                   guards, op, pre, taken, dg, todo, rep, hushCalled>>

\* The public function returns; hush_this_test builds the HushGuard.
Return(t) ==
    /\ pc[t] = "ret"
    /\ guards' = IF op[t] = "hush_this_test"
                 THEN guards (+) SetToBag({[holder |-> t, creator |-> t,
                                            pre |-> pre[t]]})
                 ELSE guards
    /\ pc' = [pc EXCEPT ![t] = "idle"]
    /\ op' = [op EXCEPT ![t] = "none"]
    /\ pre' = [pre EXCEPT ![t] = FALSE]
    /\ ret' = [ret EXCEPT ![t] = FALSE]
    /\ UNCHANGED <<processHook, original0, cell, cellF, hushed, lockHolder,
                   initCount, taken, dg, todo, done, rep, last, hushCalled>>

\* ------------------------------------------------------------- HushGuard
\* A guard goes out of scope (or is passed to drop) on the thread holding it.
DropGuard(t, g) ==
    /\ pc[t] = "idle"
    /\ g \in HeldBy(t)
    /\ guards' = guards (-) SetToBag({g})
    /\ dg' = [dg EXCEPT ![t] = g]
    /\ todo' = [todo EXCEPT ![t] = DropBody]
    /\ done' = [done EXCEPT ![t] = 0]
    /\ pc' = [pc EXCEPT ![t] = "drop"]
    /\ UNCHANGED <<processHook, original0, cell, cellF, hushed, lockHolder,
                   initCount, op, pre, ret, taken, rep, last, hushCalled>>

\* Drop::drop makes its next call.
DropCall(t) ==
    /\ pc[t] = "drop"
    /\ todo[t] # <<>>
    /\ todo' = [todo EXCEPT ![t] = Tail(todo[t])]
    /\ op' = [op EXCEPT ![t] = "drop"]
    /\ pre' = [pre EXCEPT ![t] = t \in hushed]
    /\ GetOrInit(t)
    /\ UNCHANGED <<processHook, original0, cellF, hushed, lockHolder, guards,
                   ret, taken, dg, done, rep, last, hushCalled>>

\* Drop::drop returns, into the caller or into the unwind that ran it.
DropEnd(t) ==
    /\ pc[t] = "drop"
    /\ todo[t] = <<>>
    /\ pc' = [pc EXCEPT ![t] = IF rep[t] = Unwinding THEN "unwind" ELSE "idle"]
    /\ op' = [op EXCEPT ![t] = "none"]
    /\ pre' = [pre EXCEPT ![t] = FALSE]
    /\ ret' = [ret EXCEPT ![t] = FALSE]
    /\ dg' = [dg EXCEPT ![t] = NoGuard]
    /\ done' = [done EXCEPT ![t] = 0]
    /\ UNCHANGED <<processHook, original0, cell, cellF, hushed, lockHolder,
                   initCount, guards, taken, todo, rep, last, hushCalled>>

\* ------------------------------------------------------------ panicking
\* The report r ends at `who`, which received `got`.
Delivered(r, who, got) == [r EXCEPT !.to = who, !.same = (got = r.msg), !.msg = 0]

\* A thread panics with message m: the runtime calls the process's hook.
Raise(t, m) ==
    /\ pc[t] = "idle"
    /\ LET r == [msg |-> m, peer |-> hushed \ {t} # {}, to |-> "pending",
                 same |-> FALSE]
       IN IF processHook = "husher"
          THEN /\ rep' = [rep EXCEPT ![t] = r]
               /\ pc' = [pc EXCEPT ![t] = "spin"]
          ELSE /\ rep' = [rep EXCEPT ![t] = Delivered(r, processHook, m)]
               /\ pc' = [pc EXCEPT ![t] = "unwind"]
    /\ UNCHANGED <<processHook, original0, cell, cellF, hushed, lockHolder,
                   initCount, guards, op, pre, ret, taken, dg, todo, done,
                   last, hushCalled>>

\* husher_hook, lines 32-34: leave the spin loop once the cell has a value.
SpinExit(t) ==
    /\ pc[t] = "spin"
    /\ SpinDone(cell)
    /\ pc' = [pc EXCEPT ![t] = "map"]
    /\ UNCHANGED <<processHook, original0, cell, cellF, hushed, lockHolder,
                   initCount, guards, op, pre, ret, taken, dg, todo, done,
                   rep, last, hushCalled>>

\* husher_hook, lines 36-41: get() the cell; with a value, lock the set and
\* look the thread up; without one, print the "went wrong" line.
Map(t) ==
    /\ pc[t] = "map"
    /\ IF cell = "set"
       THEN /\ lockHolder = NoThread
            /\ IF HookForwards(hushed, t)
               THEN /\ lockHolder' = t
                    /\ pc' = [pc EXCEPT ![t] = "forward"]
                    /\ UNCHANGED rep
               ELSE /\ rep' = [rep EXCEPT ![t] = Delivered(rep[t], "discarded", 0)]
                    /\ pc' = [pc EXCEPT ![t] = "unwind"]
                    /\ UNCHANGED lockHolder
       ELSE /\ rep' = [rep EXCEPT ![t] = Delivered(rep[t], "println", 0)]
            /\ pc' = [pc EXCEPT ![t] = "unwind"]
            /\ UNCHANGED lockHolder
    /\ UNCHANGED <<processHook, original0, cell, cellF, hushed, initCount,
                   guards, op, pre, ret, taken, dg, todo, done, last,
                   hushCalled>>

\* husher_hook, line 39: f(panic_info), called with the lock held; the
\* MutexGuard is released when the closure ends.
Forward(t) ==
    /\ pc[t] = "forward"
    /\ rep' = [rep EXCEPT ![t] = Delivered(rep[t], cellF, PassReport(rep[t].msg))]
    /\ lockHolder' = NoThread
    /\ pc' = [pc EXCEPT ![t] = "unwind"]
    /\ UNCHANGED <<processHook, original0, cell, cellF, hushed, initCount,
                   guards, op, pre, ret, taken, dg, todo, done, last,
                   hushCalled>>

\* The unwind destroys a guard that lives in a frame it passes.
UnwindDrop(t, g) ==
    /\ pc[t] = "unwind"
    /\ g \in HeldBy(t)
    /\ guards' = guards (-) SetToBag({g})
    /\ dg' = [dg EXCEPT ![t] = g]
    /\ todo' = [todo EXCEPT ![t] = DropBody]
    /\ done' = [done EXCEPT ![t] = 0]
    /\ pc' = [pc EXCEPT ![t] = "drop"]
    /\ rep' = [rep EXCEPT ![t] = Unwinding]
    /\ UNCHANGED <<processHook, original0, cell, cellF, hushed, lockHolder,
                   initCount, op, pre, ret, taken, last, hushCalled>>

\* The unwind reaches the frame that catches it.
UnwindDone(t) ==
    /\ pc[t] = "unwind"
    /\ rep' = [rep EXCEPT ![t] = NoRep]
    /\ pc' = [pc EXCEPT ![t] = "idle"]
    /\ UNCHANGED <<processHook, original0, cell, cellF, hushed, lockHolder,
                   initCount, guards, op, pre, ret, taken, dg, todo, done,
                   last, hushCalled>>

\* A guard handed to another thread.  HushGuard holds a PhantomData<*const ()>
\* and so is not Send: only a caller's unsafe wrapper can do this.
MoveGuard(g, u) ==
    /\ g \in BagToSet(guards)
    /\ u # g.holder
    /\ guards' = (guards (-) SetToBag({g})) (+) SetToBag({[g EXCEPT !.holder = u]})
    /\ UNCHANGED <<processHook, original0, cell, cellF, hushed, lockHolder,
                   initCount, pc, op, pre, ret, taken, dg, todo, done, rep,
                   last, hushCalled>>

\* ----------------------------------------------------------- specification
\* The steps of hush_panic, unhush_panic, hush_this_test and Drop::drop.
Library ==
    \/ \E t \in Threads : HushPanic(t)
    \/ \E t \in Threads : UnhushPanic(t)
    \/ \E t \in Threads : HushThisTest(t)
    \/ \E t \in Threads : TakeHook(t)
    \/ \E t \in Threads : SetHook(t)
    \/ \E t \in Threads : Publish(t)
    \/ \E t \in Threads : Wake(t)
    \/ \E t \in Threads : LockOp(t)
    \/ \E t \in Threads : Return(t)
    \/ \E t \in Threads : \E g \in GuardRecs : DropGuard(t, g)
    \/ \E t \in Threads : DropCall(t)
    \/ \E t \in Threads : DropEnd(t)

\* A panic: the hook, then the unwind.
Panics ==
    \/ \E t \in Threads : \E m \in Msgs : Raise(t, m)
    \/ \E t \in Threads : SpinExit(t)
    \/ \E t \in Threads : Map(t)
    \/ \E t \in Threads : Forward(t)
    \/ \E t \in Threads : \E g \in GuardRecs : UnwindDrop(t, g)
    \/ \E t \in Threads : UnwindDone(t)

Next == Library \/ Panics

Spec == Init /\ [][Next]_vars

\* The library under callers that move guards between threads (and do not
\* panic).
NextSend ==
    \/ Library
    \/ \E g \in GuardRecs : \E u \in Threads : MoveGuard(g, u)

SpecSend == Init /\ [][NextSend]_vars

TypeOK ==
    /\ processHook \in Hooks
    /\ original0 \in UserHooks
    /\ cell \in {"empty", "running", "set"}
    /\ cellF \in Hooks \cup {"none"}
    /\ hushed \subseteq Threads
    /\ lockHolder \in Threads \cup {NoThread}
    /\ initCount \in 0..NThreads
    /\ BagToSet(guards) \subseteq GuardRecs
    /\ BagCardinality(guards) <= MaxGuards
    /\ pc \in [Threads -> {"idle", "wait", "take", "sethook", "publish",
                           "lock", "ret", "drop", "spin", "map", "forward",
                           "unwind"}]
    /\ op \in [Threads -> OpNames]
    /\ pre \in [Threads -> BOOLEAN]
    /\ ret \in [Threads -> BOOLEAN]
    /\ done \in [Threads -> 0..Len(DropBody)]
    /\ hushCalled \in BOOLEAN

\* ------------------------------------------------------------ properties
\* The hook has dealt with the panic of t and the unwind has not begun: t's
\* membership and last operation are still what they were when t panicked.
Outcome(t) == pc[t] = "unwind" /\ rep[t].to \in Outcomes

\* The report of t reached the hook the process had originally, unmodified.
Reported(t) == rep[t].to = original0 /\ rep[t].same

\* C1 (P1, isolation): when thread A is hushed and thread B is not, a panic on
\* B reaches the original hook and a panic on A is discarded by husher_hook.
C1_Isolation ==
    \A a \in Threads : \A b \in Threads \ {a} :
        /\ Outcome(b) /\ rep[b].peer /\ b \notin hushed => Reported(b)
        /\ Outcome(a) /\ a \in hushed => rep[a].to = "discarded"

C1_Witness ==
    \E a \in Threads : \E b \in Threads \ {a} :
        /\ Outcome(a) /\ a \in hushed /\ rep[a].to = "discarded"
        /\ Outcome(b) /\ b \notin hushed /\ rep[b].peer /\ Reported(b)

\* C2 (P4, chaining): every panic on a thread that is not hushed reaches the
\* original hook with the unmodified report, at every point of the process's
\* life (before any hush, during the first initialization, afterwards).
C2_Chaining ==
    \A t \in Threads : Outcome(t) /\ t \notin hushed => Reported(t)

\* C3 (P5, unhush return value): unhush_panic returns true iff the thread was
\* hushed immediately before the call, and afterwards the thread is not
\* hushed.
C3_UnhushReturn ==
    \A t \in Threads :
        pc[t] = "ret" /\ op[t] = "unhush_panic"
            => ret[t] = pre[t] /\ t \notin hushed

C3_Witness ==
    \E t \in Threads : \E u \in Threads :
        /\ pc[t] = "ret" /\ op[t] = "unhush_panic" /\ ret[t] /\ pre[t]
        /\ pc[u] = "ret" /\ op[u] = "unhush_panic" /\ ~ret[u] /\ ~pre[u]

\* The steps in which hush_panic inserts and unhush_panic removes.
HushStep(t) == pc[t] = "lock" /\ op[t] = "hush_panic" /\ pc'[t] = "ret"
UnhushStep(t) == pc[t] = "lock" /\ op[t] = "unhush_panic" /\ pc'[t] = "ret"

\* C4 (P2, idempotent hush): a hush_panic on a thread that is already hushed
\* leaves the set as it was (the thread stays hushed); one unhush_panic then
\* removes the thread, an unhush_panic that follows an unhush returns false,
\* and husher_hook forwards no report of a thread whose last operation was a
\* hush.
C4_IdempotentHush ==
    [][\A t \in Threads :
        /\ HushStep(t) /\ t \in hushed => hushed' = hushed /\ t \in hushed'
        /\ UnhushStep(t) => t \notin hushed'
        /\ UnhushStep(t) /\ last[t] = "unhush" => ~ret'[t]
        /\ pc[t] = "forward" /\ pc'[t] = "unwind" => last[t] # "hush"]_vars

C4_Witness ==
    \E t \in Threads :
        pc[t] = "ret" /\ op[t] = "hush_panic" /\ pre[t] /\ t \in hushed

\* The Drop::drop of a guard that thread t created has made its calls.
Dropped(t) == pc[t] = "drop" /\ todo[t] = <<>> /\ dg[t].creator = t

\* C5 (P3, guard symmetry), as claimed: after hush_this_test and the drop of
\* its guard the thread's membership is what it was before the guard was
\* created, also when the thread was already hushed.
C5_GuardSymmetry ==
    \A t \in Threads : Dropped(t) => ((t \in hushed) = dg[t].pre)

\* C5, amended: after the drop of its guard the thread is not hushed, which
\* is its state from before the guard exactly when it was not hushed then.
C5_GuardDropUnhushes ==
    \A t \in Threads :
        Dropped(t) => /\ t \notin hushed
                      /\ ((t \in hushed) = dg[t].pre) = ~dg[t].pre

C5_Witness ==
    \E t \in Threads : Dropped(t) /\ dg[t].pre /\ done[t] = 1

\* C6 (hush-then-unhush scenario): a panic on a thread whose last operation
\* was a hush produces no report; after the thread has unhushed (guard drop
\* or unhush_panic) its panic reaches the original hook, unmodified.
C6_HushThenUnhush ==
    \A t \in Threads :
        /\ Outcome(t) /\ last[t] = "hush" => rep[t].to = "discarded"
        /\ Outcome(t) /\ last[t] = "unhush" => Reported(t)

C6_Witness ==
    \E t \in Threads :
        Outcome(t) /\ last[t] = "unhush" /\ Reported(t) /\ original0 = "custom"

\* The steps a thread takes on its own once it is in a call or a panic.
ThreadStep(t) ==
    \/ TakeHook(t) \/ SetHook(t) \/ Publish(t) \/ Wake(t) \/ LockOp(t)
    \/ Return(t) \/ DropCall(t) \/ DropEnd(t) \/ SpinExit(t) \/ Map(t)
    \/ Forward(t) \/ UnwindDone(t)

\* Thread t panicked inside the scope of a guard of its own.
InScope(t) ==
    /\ Outcome(t) /\ last[t] = "hush"
    /\ \E g \in HeldBy(t) : g.creator = t

\* C7 (concurrent guards): when two threads each panic inside their own
\* guard's scope neither report is forwarded, and nothing deadlocks: as long
\* as a thread is in a call or a panic, some such thread can take a step.
C7_ConcurrentGuards ==
    /\ \A t \in Threads : \A u \in Threads \ {t} :
          InScope(t) /\ InScope(u)
              => rep[t].to = "discarded" /\ rep[u].to = "discarded"
    /\ Active # {} => \E t \in Active : ENABLED ThreadStep(t)

C7_Witness ==
    \E t \in Threads : \E u \in Threads \ {t} :
        /\ InScope(t) /\ rep[t].to = "discarded"
        /\ InScope(u) /\ rep[u].to = "discarded"

\* The threads inside init_hushed_threads.
Initializers == {t \in Threads : pc[t] \in {"take", "sethook", "publish"}}

\* C8 (exactly-once initialization): init_hushed_threads runs at most once,
\* by one thread; once the cell holds a value it ran exactly once, the hook
\* is installed and the stored original is the hook the process had.
C8_InitOnce ==
    /\ initCount <= 1
    /\ Cardinality(Initializers) = (IF cell = "running" THEN 1 ELSE 0)
    /\ cell = "empty" => initCount = 0 /\ processHook = original0
    /\ cell = "set" =>
          initCount = 1 /\ processHook = "husher" /\ cellF = original0

C8_Witness ==
    \E t \in Threads : \E u \in Threads \ {t} :
        /\ cell = "set" /\ initCount = 1
        /\ pc[t] = "lock" /\ last[t] = "none"
        /\ pc[u] = "wait" /\ last[u] = "none"

\* The step in which the unhush_panic called by Drop::drop on t removes.
DropUnhushStep(t) == pc[t] = "lock" /\ op[t] = "drop" /\ pc'[t] = "drop"

\* C9 (guard targets its creating thread), as claimed: the drop of a guard
\* removes the thread that created the guard, and leaves the destroying
\* thread's membership alone when that is another thread.
C9_GuardTargetsCreator ==
    [][\A t \in Threads :
        DropUnhushStep(t) => hushed' = hushed \ {dg[t].creator}]_vars

\* C9, amended: the drop of a guard removes the thread that runs the drop,
\* whichever thread created the guard, and no other thread.
C9_GuardTargetsCurrent ==
    [][\A t \in Threads :
        DropUnhushStep(t) => hushed' = hushed \ {t}]_vars

C9_Witness ==
    \E t \in Threads :
        /\ pc[t] = "drop" /\ todo[t] = <<>> /\ done[t] = 1
        /\ dg[t].creator # t /\ dg[t].creator \in hushed
        /\ pre[t] /\ t \notin hushed

\* C10 (exactly one unhush per guard): a Drop::drop that has run to its end
\* has completed exactly one unhush_panic, on a normal scope exit and in an
\* unwind alike, and a guard leaves the set of live guards only by Drop::drop.
C10_OneUnhushPerGuard ==
    /\ \A t \in Threads :
          /\ pc[t] = "drop" /\ todo[t] = <<>> => done[t] = 1
          /\ pc[t] = "drop" /\ todo[t] # <<>> => done[t] = 0
          /\ pc[t] = "drop" \/ op[t] = "drop" <=> dg[t] # NoGuard

C10_Witness ==
    \E t \in Threads :
        /\ pc[t] = "drop" /\ todo[t] = <<>> /\ done[t] = 1
        /\ rep[t] = Unwinding

\* C11 (lock discipline), as claimed: no thread holds the registry lock while
\* it invokes the original hook, the lock is never acquired by the thread
\* that holds it, and a thread waiting for the lock in hush_panic or
\* unhush_panic never waits for a thread that is forwarding a report.
C11_LockDiscipline ==
    \A t \in Threads :
        /\ pc[t] = "forward" => lockHolder # t
        /\ lockHolder = t => pc[t] \notin {"lock", "map"}
        /\ pc[t] = "lock" /\ lockHolder # NoThread
              => pc[lockHolder] # "forward"

\* C12 (startup race): a hook that runs while the cell has no value yet has
\* not decided on its report; it reaches the lookup only once the cell holds
\* the registry, it forwards only after finding the thread absent from the
\* set, and no report ends at the "went wrong" line.
C12_StartupRace ==
    \A t \in Threads :
        /\ pc[t] = "spin" => rep[t].to = "pending"
        /\ pc[t] \in {"map", "forward"} => cell = "set" /\ rep[t].to = "pending"
        /\ pc[t] = "forward" => t \notin hushed /\ cellF = original0
        /\ rep[t].to # "println"

C12_Witness ==
    \E t \in Threads : \E u \in Threads \ {t} :
        /\ pc[t] = "spin" /\ rep[t].to = "pending"
        /\ cell = "running" /\ pc[u] = "publish"

\* Fair scheduling: a thread that can keep taking its next step takes it, and
\* a thread that finds the lock free again and again acquires it in the end
\* (parking_lot's Mutex is eventually fair).
Fairness ==
    \A t \in Threads :
        /\ WF_vars(ThreadStep(t))
        /\ SF_vars(LockOp(t))
        /\ SF_vars(Map(t))

FairSpec == Spec /\ Fairness

\* The hook is running on thread t.
InHook(t) == pc[t] \in {"spin", "map", "forward"}

\* C13 (hook termination): under fair scheduling every invocation of
\* husher_hook finishes with its report forwarded to the stored original or
\* discarded; the spin loop in particular ends.
C13_HookTerminates ==
    \A t \in Threads :
        InHook(t) ~> (Outcome(t) /\ rep[t].to \in {"discarded", cellF})

C13_Witness ==
    \E t \in Threads : \E u \in Threads \ {t} :
        /\ Outcome(t) /\ rep[t].to = "discarded"
        /\ InHook(u) /\ lockHolder = u

\* C14 (capture ordering): the original hook is taken before husher_hook is
\* installed and is never overwritten: the initializing thread holds the
\* process's original hook from take_hook on, husher_hook is the process hook
\* only after that, and the cell stores the original hook, never husher_hook.
C14_CaptureOrdering ==
    /\ \A t \in Threads :
          /\ pc[t] \in {"sethook", "publish"} => taken[t] = original0
          /\ pc[t] = "sethook" => processHook # "husher"
          /\ taken[t] # "husher"
    /\ processHook = "husher" =>
          \/ cellF = original0
          \/ \E t \in Threads : pc[t] = "publish" /\ taken[t] = original0
    /\ cellF \in {"none", original0}

C14_Witness ==
    /\ cell = "set" /\ cellF = "custom" /\ processHook = "husher"
    /\ \E t \in Threads : Outcome(t) /\ rep[t].to = "custom"

\* The step in which a public function or Drop::drop on t updates the set,
\* and the step in which husher_hook on t looks t up.
MemberStep(t) == pc[t] = "lock" /\ pc'[t] # "lock"
LookupStep(t) == pc[t] = "map" /\ pc'[t] # "map"

\* C15 (per-thread ordering and frame): husher_hook discards the report of
\* thread T iff the last operation T completed was a hush; an operation run
\* on thread U leaves the membership of every other thread as it was, and
\* the membership of a thread changes only in an operation of its own.
C15_OrderingAndFrame ==
    [][\A t \in Threads :
        /\ LookupStep(t) => (rep'[t].to = "discarded" <=> last[t] = "hush")
        /\ MemberStep(t) =>
              \A v \in Threads \ {t} : (v \in hushed') = (v \in hushed)
        /\ (t \in hushed') # (t \in hushed) => MemberStep(t)]_vars

C15_Witness ==
    \E u \in Threads : \E v \in Threads \ {u} :
        /\ pc[u] = "ret" /\ op[u] = "unhush_panic" /\ ret[u]
        /\ v \in hushed /\ last[v] = "hush"
        /\ Outcome(v) /\ rep[v].to = "discarded"

\* No thread has begun a library call so far (a thread that has completed no
\* operation and is in none has never held a guard either); no thread has
\* called hush_panic or hush_this_test so far.
NoCallYet == \A t \in Threads : last[t] = "none" /\ op[t] = "none"
NoHushYet == ~hushCalled

\* C16 (installation trigger), as claimed: the hook is installed at most
\* once; as long as no thread has called hush the process hook is still the
\* original one and no registry exists.
C16_InstallOnFirstHush ==
    /\ initCount <= 1
    /\ NoHushYet => processHook = original0 /\ cell = "empty"

\* C16, amended: the hook is installed at most once, by the first call of any
\* of hush_panic, hush_this_test and unhush_panic: the initialization has
\* begun exactly when a call has, and before that the process hook is the
\* original one and no registry exists.
C16_InstallOnFirstCall ==
    /\ initCount <= 1
    /\ NoCallYet <=> cell = "empty"
    /\ NoCallYet => processHook = original0 /\ cellF = "none" /\ initCount = 0
    /\ ~NoCallYet => initCount = 1

C16_Witness ==
    \E t \in Threads :
        /\ pc[t] = "idle" /\ last[t] = "unhush" /\ ~ret[t]
        /\ cell = "set" /\ processHook = "husher" /\ initCount = 1
        /\ NoHushYet

\* C17 (permanence): once the initialization has completed, the interception
\* hook stays installed and the registry and the stored original hook stay
\* as they are for the rest of the process; no operation uninstalls the hook
\* or tears the registry down.
C17_Permanence ==
    [][/\ processHook = "husher" => processHook' = "husher"
       /\ cell = "set" =>
             /\ cell' = "set"
             /\ cellF' = cellF
             /\ processHook = "husher"
             /\ hushed' \in SUBSET Threads]_vars

C17_Witness ==
    /\ cell = "set" /\ processHook = "husher"
    /\ \E t, u \in Threads :
          /\ t # u
          /\ last[t] = "unhush" /\ pc[t] = "idle" /\ guards = EmptyBag
          /\ Outcome(u) /\ rep[u].to = cellF

\* A step of t that leaves husher_hook: the hook returns and the unwind begins.
HookExit(t) == InHook(t) /\ pc'[t] = "unwind"

OwnGuardAlive(t) == \E g \in HeldBy(t) : g.creator = t

\* The unwind of t has destroyed a guard: its Drop::drop has run to the end.
UnwindDropped(t) == pc[t] = "drop" /\ todo[t] = <<>> /\ rep[t] = Unwinding

\* C19 (fault inside a live guard scope), as claimed: the hook decides on the
\* report of T before the unwind destroys a guard, and whenever a guard
\* created on T is alive at that moment the report is discarded; after the
\* unwind has destroyed the guard T is not hushed and a later report of T is
\* forwarded.
C19_GuardAliveDiscards ==
    \A t \in Threads :
        /\ InHook(t) => dg[t] = NoGuard
        /\ Outcome(t) /\ OwnGuardAlive(t) => rep[t].to = "discarded"
        /\ UnwindDropped(t) => t \notin hushed
        /\ Outcome(t) /\ last[t] = "unhush" => Reported(t)

\* C19, amended: the report is discarded when a guard created on T is alive
\* and T has not been unhushed since it was last hushed (by unhush_panic or
\* by the drop of another guard of T); the rest as claimed.
C19_FaultInScope ==
    \A t \in Threads :
        /\ InHook(t) => dg[t] = NoGuard
        /\ Outcome(t) /\ OwnGuardAlive(t) /\ last[t] = "hush"
              => rep[t].to = "discarded"
        /\ Outcome(t) /\ OwnGuardAlive(t) /\ last[t] # "hush" => Reported(t)
        /\ UnwindDropped(t) => t \notin hushed
        /\ Outcome(t) /\ last[t] = "unhush" => Reported(t)

C19_Witness ==
    \E t \in Threads :
        /\ UnwindDropped(t) /\ done[t] = 1 /\ t \notin hushed
        /\ last[t] = "unhush" /\ dg[t].creator = t /\ ~dg[t].pre
        /\ guards = EmptyBag
====
